---- MODULE Spec2Model ----
(***************************************************************************)
(* Model of deep_chem/utils/preprocess.py: the train/test splitters        *)
(* (train_test_random_split, train_test_scaffold_split, scaffold_separate),*)
(* the matrix builder (dataset_to_numpy), the column transform pipeline    *)
(* (transform_outputs) and the weight deriver (labels_to_weights).         *)
(*                                                                         *)
(* Conventions.  Compound identifiers, target names and scaffold keys are  *)
(* Python strings; they are modelled by their rank in sorted order, so     *)
(* that sorted(keys) is the ascending enumeration of a set of integers.    *)
(* A Python dict is a TLA+ function.  frac_train is the rational           *)
(* frac_num / FracDen; products with it are compared exactly.              *)
(***************************************************************************)
EXTENDS Integers, Sequences, FiniteSets, TLC

VARIABLES
  pc,          \* position of the call: "start", "scaffold_loop", "done"
  fn,          \* the function that was called ("none" before the call)
  dataset,     \* the dataset argument: identifier -> datapoint
  frac_num,    \* frac_train = frac_num / FracDen
  scaffolds,   \* train_test_scaffold_split: the list scaffold_separate returned
  gi,          \* train_test_scaffold_split: index of the next group of the loop
  train,       \* the train dict being built / returned
  test,        \* the test dict being built / returned
  add_descriptors, \* dataset_to_numpy / transform_outputs argument
  task_transforms, \* transform_outputs argument: target -> transform list
  desc_transforms, \* transform_outputs argument: descriptor number -> list
  sample_key,  \* dataset_to_numpy: the key dataset.itervalues().next() gave
  ytrue,       \* labels_to_weights argument
  int_dtype,   \* labels_to_weights: TRUE when ytrue holds integers
  result       \* what the call returned or raised

vars == <<pc, fn, dataset, frac_num, scaffolds, gi, train, test,
          add_descriptors, task_transforms, desc_transforms, sample_key,
          ytrue, int_dtype, result>>

-----------------------------------------------------------------------------
(* Bounds of the model *)

MaxIds == 4
NumScaffolds == 3
FracDen == 4

Ids == 1..MaxIds
ScaffoldKeys == 1..NumScaffolds
\* frac_train ranges over -(FracDen+1)/FracDen .. 2: inside and outside the
\* open interval (0, 1), below -1 and above 1 included.
FracNums == (0 - FracDen - 1)..(2 * FracDen)

NoResult == [status |-> "none"]

-----------------------------------------------------------------------------
(* Generic helpers: Python built-ins *)

Min(a, b) == IF a < b THEN a ELSE b
Max(a, b) == IF a > b THEN a ELSE b

\* floor(a / b) for b # 0 (Python 2 integer division, np.floor of a quotient).
FloorDiv(a, b) == IF b > 0 THEN a \div b ELSE (0 - a) \div (0 - b)

\* All orderings (lists without repetition) of the finite set S.
RECURSIVE Orderings(_)
Orderings(S) ==
  IF S = {} THEN {<<>>}
  ELSE UNION {{<<x>> \o t : t \in Orderings(S \ {x})} : x \in S}

\* Python's normalisation of a slice bound k for a list of length n.
SliceBound(k, n) == IF k < 0 THEN Max(k + n, 0) ELSE Min(k, n)

\* seq[:k] and seq[k:]
SliceFrom_skip(seq, k) == SubSeq(seq, SliceBound(k, Len(seq)) + 2, Len(seq))
SliceTo(seq, k) == SubSeq(seq, 1, SliceBound(k, Len(seq)))
SliceFrom(seq, k) == SubSeq(seq, SliceBound(k, Len(seq)) + 1, Len(seq))

Range(seq) == {seq[i] : i \in 1..Len(seq)}

\* d restricted to the keys K: the dict built by "for key in K: out[key] = d[key]"
SubDict(d, K) == [k \in K |-> d[k]]

\* a dict after "for elt in elements: d[elt] = src[elt]"
Update(d, src, elements) ==
  [k \in DOMAIN d \cup elements |-> IF k \in elements THEN src[k] ELSE d[k]]

EmptyDict == [k \in {} |-> 0]

-----------------------------------------------------------------------------
(* train_test_random_split *)

\* train_cutoff = np.floor(frac_train * len(shuffled))
TrainCutoff(num, n) == FloorDiv(num * n, FracDen)

\* The (train, test) pair built from one permutation of the keys.
RandomSplitOf(d, shuffled, num) ==
  LET train_cutoff == TrainCutoff(num, Len(shuffled))
      train_keys == SliceTo(shuffled, train_cutoff)
      test_keys == SliceFrom(shuffled, train_cutoff)
  IN  [train |-> SubDict(d, Range(train_keys)),
       test |-> SubDict(d, Range(test_keys))]

-----------------------------------------------------------------------------
(* scaffold_separate *)

\* scaffolds[scaffold] = the identifiers whose datapoint carries the scaffold
ScaffoldSets_unmerged(d) ==
  {[scaffold |-> d[k].scaffold, elements |-> {k}] : k \in DOMAIN d}
ScaffoldSets(d) ==
  LET keys == {d[k].scaffold : k \in DOMAIN d}
  IN  {[scaffold |-> s, elements |-> {k \in DOMAIN d : d[k].scaffold = s}] :
         s \in keys}

\* key=lambda x: -len(x[1]): the list is in decreasing order of group size
SortedBySize(seq) ==
  \A i \in 1..Len(seq) : \A j \in i..Len(seq) :
     Cardinality(seq[i].elements) >= Cardinality(seq[j].elements)

\* sorted() is stable and scaffolds.items() comes in the dict's arbitrary
\* order, so every decreasing-size order of the groups is a possible result.
scaffold_separate(d) == {seq \in Orderings(ScaffoldSets(d)) : SortedBySize(seq)}

-----------------------------------------------------------------------------
(* train_test_scaffold_split *)

\* len(train) + len(elements) > train_size, train_size = frac_train * len(dataset)
TooBig_ge(tr, elements, num, d) ==
  (Cardinality(DOMAIN tr) + Cardinality(elements)) * FracDen
     >= num * Cardinality(DOMAIN d)
TooBig(tr, elements, num, d) ==
  (Cardinality(DOMAIN tr) + Cardinality(elements)) * FracDen
     > num * Cardinality(DOMAIN d)

\* One iteration of "for scaffold, elements in scaffolds" (lines 247-254).
ScaffoldLoopBody(tr, te, group, num, d) ==
  IF TooBig(tr, group.elements, num, d)
  THEN [train |-> tr, test |-> Update(te, d, group.elements)]
  ELSE [train |-> Update(tr, d, group.elements), test |-> te]

-----------------------------------------------------------------------------
(* Inputs of the splitters *)

\* A datapoint of a dataset given to a splitter: only the scaffold matters
\* to the code, the other fields are carried along.
SplitDatapoint(s) ==
  [fingerprint |-> <<1>>, labels |-> <<2>>, descriptors |-> <<3>>, scaffold |-> s]

SplitDatasets ==
  UNION {[K -> {SplitDatapoint(s) : s \in ScaffoldKeys}] : K \in SUBSET Ids}

\* Values of the variables a specification does not use.
IdleSplit ==
  /\ frac_num = 0 /\ scaffolds = <<>> /\ gi = 0
  /\ train = EmptyDict /\ test = EmptyDict
IdleMatrix ==
  /\ add_descriptors = FALSE /\ task_transforms = EmptyDict
  /\ desc_transforms = EmptyDict /\ sample_key = 0
IdleWeights == ytrue = <<>> /\ int_dtype = TRUE

InitSplit ==
  /\ pc = "start" /\ fn = "none" /\ result = NoResult
  /\ dataset \in SplitDatasets
  /\ frac_num \in FracNums
  /\ scaffolds = <<>> /\ gi = 0
  /\ train = EmptyDict /\ test = EmptyDict
  /\ IdleMatrix /\ IdleWeights

-----------------------------------------------------------------------------
(* Actions of the splitters *)

\* train_test_random_split(dataset, frac_train, seed): the whole call.
\* np.random.permutation yields some ordering of the keys.
train_test_random_split ==
  /\ pc = "start"
  /\ \E shuffled \in Orderings(DOMAIN dataset) :
       LET r == RandomSplitOf(dataset, shuffled, frac_num)
       IN  /\ train' = r.train
           /\ test' = r.test
           /\ result' = [status |-> "returned", train |-> r.train, test |-> r.test]
  /\ pc' = "done" /\ fn' = "random"
  /\ UNCHANGED <<dataset, frac_num, scaffolds, gi, add_descriptors,
                 task_transforms, desc_transforms, sample_key, ytrue, int_dtype>>

\* train_test_scaffold_split, lines 244-246: call scaffold_separate, set up.
ScaffoldSplitBegin ==
  /\ pc = "start"
  /\ \E s \in scaffold_separate(dataset) : scaffolds' = s
  /\ gi' = 1
  /\ train' = EmptyDict /\ test' = EmptyDict
  /\ pc' = "scaffold_loop" /\ fn' = "scaffold"
  /\ UNCHANGED <<dataset, frac_num, add_descriptors, task_transforms,
                 desc_transforms, sample_key, ytrue, int_dtype, result>>

\* train_test_scaffold_split, lines 247-254: one iteration of the loop.
ScaffoldSplitStep ==
  /\ pc = "scaffold_loop"
  /\ gi <= Len(scaffolds)
  /\ LET r == ScaffoldLoopBody(train, test, scaffolds[gi], frac_num, dataset)
     IN  train' = r.train /\ test' = r.test
  /\ gi' = gi + 1
  /\ UNCHANGED <<pc, fn, dataset, frac_num, scaffolds, add_descriptors,
                 task_transforms, desc_transforms, sample_key, ytrue, int_dtype,
                 result>>

\* train_test_scaffold_split, line 255: return train, test.
ScaffoldSplitReturn ==
  /\ pc = "scaffold_loop"
  /\ gi > Len(scaffolds)
  /\ result' = [status |-> "returned", train |-> train, test |-> test]
  /\ pc' = "done"
  /\ UNCHANGED <<fn, dataset, frac_num, scaffolds, gi, train, test,
                 add_descriptors, task_transforms, desc_transforms, sample_key,
                 ytrue, int_dtype>>

NextSplit ==
  \/ train_test_random_split
  \/ ScaffoldSplitBegin
  \/ ScaffoldSplitStep
  \/ ScaffoldSplitReturn

SpecSplit == InitSplit /\ [][NextSplit]_vars

-----------------------------------------------------------------------------
(* Numbers held by the float matrices *)

\* An entry of y is a float.  The model keeps it exactly: an integer
\* ("num", a), the logarithm of a positive integer ("ln", a), the results
\* numpy gives outside the domain of log ("-inf", "nan"), and a standardised
\* entry a / sqrt(b) ("z").
Num(v) == [k |-> "num", a |-> v, b |-> 1]
Ln(v) == [k |-> "ln", a |-> v, b |-> 1]
NegInf == [k |-> "-inf", a |-> 0, b |-> 1]
NaN == [k |-> "nan", a |-> 0, b |-> 1]
ZScore(a, b) == [k |-> "z", a |-> a, b |-> b]

\* An entry of W is the rational <<numerator, denominator>>.
WZero == <<0, 1>>
WOne == <<1, 1>>
\* desc_weight=.5
desc_weight == <<1, 2>>

\* the missing-label sentinel of "labels[target] == -1"
Missing == 0 - 1

\* sorted(S) for a finite set of ranks
RECURSIVE SortedSeq(_)
SortedSeq(S) ==
  IF S = {} THEN <<>>
  ELSE LET lo == CHOOSE x \in S : \A z \in S : x <= z
       IN  <<lo>> \o SortedSeq(S \ {lo})

Raised(e) == [status |-> "raised", error |-> e]

-----------------------------------------------------------------------------
(* dataset_to_numpy *)

\* dest[...] = src for a row or slice of length n: numpy accepts a source of
\* the same length, and broadcasts a source of length 1.
Assignable(src, n) == Len(src) = n \/ Len(src) = 1
Broadcast(src, n) == [j \in 1..n |-> IF Len(src) = n THEN src[j] ELSE src[1]]

\* Row of y after lines 140-149 for one datapoint; width is the number of
\* columns of y, n_targets the number of labels of the sample datapoint.
YRow(dp, width, n_targets, add_desc) ==
  LET labels == dp.labels
      sorted_targets == SortedSeq(DOMAIN labels)
      n_desc == width - n_targets
      fromLabels ==
        [c \in 1..width |->
           IF c <= Len(sorted_targets) /\ labels[sorted_targets[c]] # Missing
           THEN Num(labels[sorted_targets[c]])
           ELSE Num(0)]
  IN  IF add_desc
      THEN [c \in 1..width |->
              IF c > n_targets
              THEN Num(Broadcast(dp.descriptors, n_desc)[c - n_targets])
              ELSE fromLabels[c]]
      ELSE fromLabels

\* Row of W after lines 140-149 for one datapoint.
WRow_noreset(dp, width, n_targets, add_desc) ==
  [c \in 1..width |-> IF add_desc /\ c > n_targets THEN desc_weight ELSE WOne]
WRow(dp, width, n_targets, add_desc) ==
  LET labels == dp.labels
      sorted_targets == SortedSeq(DOMAIN labels)
  IN  [c \in 1..width |->
         IF add_desc /\ c > n_targets THEN desc_weight
         ELSE IF c <= Len(sorted_targets) /\ labels[sorted_targets[c]] = Missing
              THEN WZero
              ELSE WOne]

\* The exception one iteration of the loop of line 131 raises, or "none".
RowError(dp, n_features, width, n_targets, add_desc) ==
  IF ~Assignable(dp.fingerprint, n_features) THEN "ValueError"
  ELSE IF Cardinality(DOMAIN dp.labels) > width THEN "IndexError"
  ELSE IF add_desc /\ ~Assignable(dp.descriptors, width - n_targets)
       THEN "ValueError"
       ELSE "none"

\* dataset_to_numpy(dataset, add_descriptors=add_desc), where sk is the key
\* of the datapoint dataset.itervalues().next() returns.
dataset_to_numpy(d, add_desc, sk) ==
  IF DOMAIN d = {} THEN Raised("StopIteration")
  ELSE
    LET sample_datapoint == d[sk]
        n_features == Len(sample_datapoint.fingerprint)
        n_targets == Cardinality(DOMAIN sample_datapoint.labels)
        n_desc == Len(sample_datapoint.descriptors)
        width == IF add_desc THEN n_targets + n_desc ELSE n_targets
        sorted_smiles == SortedSeq(DOMAIN d)
        n_samples == Len(sorted_smiles)
        err(i) == RowError(d[sorted_smiles[i]], n_features, width, n_targets,
                           add_desc)
        bad == {i \in 1..n_samples : err(i) # "none"}
    IN  IF bad # {}
        THEN Raised(err(CHOOSE i \in bad : \A j \in bad : i <= j))
        ELSE [status |-> "returned",
              X |-> [i \in 1..n_samples |->
                       Broadcast(d[sorted_smiles[i]].fingerprint, n_features)],
              y |-> [i \in 1..n_samples |->
                       YRow(d[sorted_smiles[i]], width, n_targets, add_desc)],
              W |-> [i \in 1..n_samples |->
                       WRow(d[sorted_smiles[i]], width, n_targets, add_desc)]]

-----------------------------------------------------------------------------
(* Inputs of dataset_to_numpy *)

MaxRows == 2
RowIds == 1..MaxRows
Targets == {1, 2}
FeatureLens == {1, 2}
DescLens == {1, 2}
LabelVals == {Missing, 0, 2}

\* The vectors are given by their length; descriptor j of compound k is k + j.
Fingerprint(n) == [j \in 1..n |-> 1]
Descriptors(k, n) == [j \in 1..n |-> k + j]

LabelDicts(vals) ==
  UNION {[T -> vals] : T \in (SUBSET Targets) \ {{}}}

\* The dataset with keys K whose datapoint k has a fingerprint of length
\* fl[k], the labels lab[k] and dl[k] descriptors.
MatrixDataset(K, fl, lab, dl) ==
  [k \in K |-> [fingerprint |-> Fingerprint(fl[k]),
                labels |-> lab[k],
                descriptors |-> Descriptors(k, dl[k]),
                scaffold |-> 1]]

\* Any mix of vector lengths and label sets; without add_descriptors the
\* descriptors are not read and are left at one length.
InitNumpy ==
  /\ pc = "start" /\ fn = "none" /\ result = NoResult
  /\ add_descriptors \in BOOLEAN
  /\ \E K \in SUBSET RowIds :
       \E fl \in [K -> FeatureLens] :
         \E lab \in [K -> LabelDicts(LabelVals)] :
           \E dl \in [K -> IF add_descriptors THEN DescLens ELSE {1}] :
             dataset = MatrixDataset(K, fl, lab, dl)
  /\ task_transforms = EmptyDict /\ desc_transforms = EmptyDict
  /\ sample_key = 0
  /\ IdleSplit /\ IdleWeights

\* dataset_to_numpy(dataset, add_descriptors=add_descriptors): the whole call.
\* The dict's iteration order decides which datapoint sizes the matrices.
dataset_to_numpy_call ==
  /\ pc = "start"
  /\ \E sk \in (IF DOMAIN dataset = {} THEN {0} ELSE DOMAIN dataset) :
       /\ sample_key' = sk
       /\ result' = dataset_to_numpy(dataset, add_descriptors, sk)
  /\ pc' = "done" /\ fn' = "to_numpy"
  /\ UNCHANGED <<dataset, frac_num, scaffolds, gi, train, test,
                 add_descriptors, task_transforms, desc_transforms, ytrue,
                 int_dtype>>

NextNumpy == dataset_to_numpy_call

SpecNumpy == InitNumpy /\ [][NextNumpy]_vars

-----------------------------------------------------------------------------
(* transform_outputs *)

\* y[:, c] and y[:, c] = col
Col(m, c) == [i \in 1..Len(m) |-> m[i][c]]
SetCol(m, c, col) == [i \in 1..Len(m) |-> [m[i] EXCEPT ![c] = col[i]]]

\* np.log of one entry: -inf at 0 and nan below 0 (numpy warns, it does not
\* raise).  The transform lists of the model apply log to integer entries.
LogVal_clamp(v) ==
  CASE v.k = "num" /\ v.a > 0 -> Ln(v.a)
    [] v.k = "num" /\ v.a <= 0 -> Num(0)
    [] v.k \in {"-inf", "nan"} -> NaN
LogVal(v) ==
  CASE v.k = "num" /\ v.a > 0 -> Ln(v.a)
    [] v.k = "num" /\ v.a = 0 -> NegInf
    [] v.k = "num" /\ v.a < 0 -> NaN
    [] v.k \in {"-inf", "nan"} -> NaN

LogCol(col) == [i \in 1..Len(col) |-> LogVal(col[i])]

\* np.amax(y[:, task]) over an integer column
RECURSIVE AMax(_)
AMax(col) ==
  IF Len(col) = 1 THEN col[1].a ELSE Max(col[1].a, AMax(Tail(col)))

\* y[:, task] = 1 + maxval - y[:, task]
OnePlusMaxValCol(col) ==
  LET maxval == AMax(col)
  IN  [i \in 1..Len(col) |-> Num(1 + maxval - col[i].a)]

RECURSIVE SumOver(_, _, _)
SumOver(col, rows, square) ==
  IF rows = {} THEN 0
  ELSE LET i == CHOOSE r \in rows : TRUE
       IN  (IF square THEN col[i].a * col[i].a ELSE col[i].a)
             + SumOver(col, rows \ {i}, square)

\* The "normalize" branch (lines 58-72) on an integer column; nonzero is the
\* set of rows the boolean mask selects.  With n = |nonzero|, s = sum and
\* q = sum of squares, x - mean = (n*x - s)/n and std = sqrt(n*q - s*s)/n,
\* so the standardised entry is (n*x - s)/sqrt(n*q - s*s).  An empty
\* selection changes nothing (mean and std are nan); std == 0 leaves the
\* mean-centred entries, which are then all 0.
NormalizeCol(col, nonzero) ==
  LET n == Cardinality(nonzero)
      s == SumOver(col, nonzero, FALSE)
      q == SumOver(col, nonzero, TRUE)
      var == n * q - s * s
  IN  [i \in 1..Len(col) |->
         IF i \notin nonzero THEN col[i]
         ELSE IF var = 0 THEN Num(0)
              ELSE ZScore(n * col[i].a - s, var)]

\* nonzero = (W[:, task] != 0) for a target column, all rows otherwise
NonzeroMask(wcol, masked) ==
  IF masked THEN {i \in 1..Len(wcol) : wcol[i][1] # 0} ELSE 1..Len(wcol)

KnownTransforms == {"log", "1+max-val", "normalize"}

\* The loop of line 51 over one column: the column after the transforms of
\* list, or the ValueError of line 74 at the first unknown name.
RECURSIVE ApplyList(_, _, _, _)
ApplyList(list, col, wcol, masked) ==
  IF list = <<>> THEN [status |-> "ok", col |-> col]
  ELSE
    LET task_transform == Head(list)
    IN  IF task_transform = "log"
        THEN ApplyList(Tail(list), LogCol(col), wcol, masked)
        ELSE IF task_transform = "1+max-val"
        THEN ApplyList(Tail(list), OnePlusMaxValCol(col), wcol, masked)
        ELSE IF task_transform = "normalize"
        THEN ApplyList(Tail(list), NormalizeCol(col, NonzeroMask(wcol, masked)),
                       wcol, masked)
        ELSE [status |-> "ValueError", col |-> col]

Endpoint(kind, key) == [kind |-> kind, key |-> key]

\* endpoints (lines 40-45): sorted task_transforms keys, then the sorted
\* desc_transforms keys when add_descriptors is set.
Endpoints(tt, dt, add_desc) ==
  LET sorted_targets == SortedSeq(DOMAIN tt)
      sorted_descriptors == SortedSeq(DOMAIN dt)
  IN  [i \in 1..Len(sorted_targets) |-> Endpoint("target", sorted_targets[i])]
        \o (IF add_desc
            THEN [i \in 1..Len(sorted_descriptors) |->
                    Endpoint("descriptor", sorted_descriptors[i])]
            ELSE <<>>)

\* transforms[target] (lines 46-50); target names are strings and descriptor
\* numbers integers, so update() overwrites no key.
TransformsOf(tt, dt, ep) == IF ep.kind = "target" THEN tt[ep.key] ELSE dt[ep.key]

\* The loop of line 49 from endpoint number task on (task counts from 1).
\* A column index past the width of y raises IndexError at the first
\* y[:, task], unless an unknown transform name raises first.
RECURSIVE TransformLoop(_, _, _, _, _, _, _)
TransformLoop(X, y, W, tt, dt, endpoints, task) ==
  IF task > Len(endpoints)
  THEN [status |-> "returned", X |-> X, y |-> y, W |-> W]
  ELSE
    LET list == TransformsOf(tt, dt, endpoints[task])
        width == Len(y[1])
    IN  IF task > width
        THEN IF list # <<>> /\ Head(list) \notin KnownTransforms
             THEN Raised("ValueError")
             ELSE Raised("IndexError")
        ELSE
          LET r == ApplyList(list, Col(y, task), Col(W, task),
                             task <= Cardinality(DOMAIN tt))
          IN  IF r.status = "ok"
              THEN TransformLoop(X, SetCol(y, task, r.col), W, tt, dt,
                                 endpoints, task + 1)
              ELSE Raised(r.status)

\* transform_outputs(dataset, task_transforms, desc_transforms, add_descriptors)
transform_outputs(d, tt, dt, add_desc, sk) ==
  LET m == dataset_to_numpy(d, add_desc, sk)
  IN  IF m.status = "raised" THEN m
      ELSE TransformLoop(m.X, m.y, m.W, tt, dt, Endpoints(tt, dt, add_desc), 1)

-----------------------------------------------------------------------------
(* Inputs of transform_outputs *)

TransformLabelVals == {0 - 2, Missing, 2}
DescNums == {0, 1}
TaskTransformLists ==
  {<<>>, <<"log">>, <<"normalize">>, <<"1+max-val">>, <<"log", "square">>}
\* get_default_descriptor_transforms gives every descriptor ["normalize"]
DescTransformLists == {<<"normalize">>}

DictsInto(keys, vals) == UNION {[K -> vals] : K \in SUBSET keys}

\* Datasets that keep the invariant of the loader: one set of target names,
\* one feature length, one descriptor length; identifiers 1..n.
InitTransform ==
  /\ pc = "start" /\ fn = "none" /\ result = NoResult
  /\ \E n \in 0..MaxRows :
       \E T \in (SUBSET Targets) \ {{}} :
         \E nd \in DescLens :
           \E lab \in [1..n -> [T -> TransformLabelVals]] :
             dataset = MatrixDataset(1..n, [k \in 1..n |-> 1], lab,
                                     [k \in 1..n |-> nd])
  /\ add_descriptors \in BOOLEAN
  /\ task_transforms \in DictsInto(Targets, TaskTransformLists)
  /\ desc_transforms \in (IF add_descriptors
                          THEN DictsInto(DescNums, DescTransformLists)
                          ELSE {EmptyDict})
  /\ sample_key = 0
  /\ IdleSplit /\ IdleWeights

\* transform_outputs(...): the whole call, dataset_to_numpy included.
transform_outputs_call ==
  /\ pc = "start"
  /\ \E sk \in (IF DOMAIN dataset = {} THEN {0} ELSE DOMAIN dataset) :
       /\ sample_key' = sk
       /\ result' = transform_outputs(dataset, task_transforms, desc_transforms,
                                      add_descriptors, sk)
  /\ pc' = "done" /\ fn' = "transform"
  /\ UNCHANGED <<dataset, frac_num, scaffolds, gi, train, test,
                 add_descriptors, task_transforms, desc_transforms, ytrue,
                 int_dtype>>

NextTransform == transform_outputs_call

SpecTransform == InitTransform /\ [][NextTransform]_vars

-----------------------------------------------------------------------------
(* labels_to_weights *)

PosInf == [k |-> "inf", a |-> 0, b |-> 1]

\* np.sum(ytrue)
RECURSIVE SumSeq(_)
SumSeq(seq) == IF seq = <<>> THEN 0 ELSE Head(seq) + SumSeq(Tail(seq))

\* pos_weight = np.floor(n_negatives/n_positives) (lines 289-292).  With
\* n_positives = 0 numpy warns and does not raise: an integer quotient is 0,
\* a float quotient is inf, or nan for 0/0.
PosWeight_total(seq, ints) ==
  LET n_total == Len(seq)
      n_positives == SumSeq(seq)
  IN  IF n_positives # 0 THEN Num(FloorDiv(n_total, n_positives))
      ELSE IF ints THEN Num(0)
      ELSE IF n_total > 0 THEN PosInf ELSE NaN
PosWeight(seq, ints) ==
  LET n_total == Len(seq)
      n_positives == SumSeq(seq)
      n_negatives == n_total - n_positives
  IN  IF n_positives # 0 THEN Num(FloorDiv(n_negatives, n_positives))
      ELSE IF ints THEN Num(0)
      ELSE IF n_negatives > 0 THEN PosInf ELSE NaN

\* labels_to_weights(ytrue); ints says whether ytrue holds integers.
labels_to_weights(seq, ints) ==
  LET pos_weight == PosWeight(seq, ints)
  IN  IF \E i \in 1..Len(seq) : seq[i] \notin {0, 1}
      THEN Raised("ValueError")
      ELSE [status |-> "returned",
            sample_weights |->
              [i \in 1..Len(seq) |-> IF seq[i] = 0 THEN Num(1) ELSE pos_weight]]

MaxLabels == 4
WeightLabelVals == {0 - 1, 0, 1, 2}

RECURSIVE SeqsUpTo(_, _)
SeqsUpTo(S, n) ==
  IF n = 0 THEN {<<>>}
  ELSE LET shorter == SeqsUpTo(S, n - 1)
       IN  shorter \cup {Append(q, x) : q \in {r \in shorter : Len(r) = n - 1},
                                        x \in S}

InitWeights ==
  /\ pc = "start" /\ fn = "none" /\ result = NoResult
  /\ ytrue \in SeqsUpTo(WeightLabelVals, MaxLabels)
  /\ int_dtype \in BOOLEAN
  /\ dataset = EmptyDict
  /\ IdleSplit /\ IdleMatrix

\* labels_to_weights(ytrue): the whole call.
labels_to_weights_call ==
  /\ pc = "start"
  /\ result' = labels_to_weights(ytrue, int_dtype)
  /\ pc' = "done" /\ fn' = "weights"
  /\ UNCHANGED <<dataset, frac_num, scaffolds, gi, train, test,
                 add_descriptors, task_transforms, desc_transforms, sample_key,
                 ytrue, int_dtype>>

NextWeights == labels_to_weights_call

SpecWeights == InitWeights /\ [][NextWeights]_vars

\* The four functions under one specification.
Init == InitSplit \/ InitNumpy \/ InitTransform \/ InitWeights
Next == NextSplit \/ NextNumpy \/ NextTransform \/ NextWeights
Spec == Init /\ [][Next]_vars

-----------------------------------------------------------------------------
(* Properties of the splitters, checked under SpecSplit *)

SplitReturned == pc = "done" /\ fn \in {"random", "scaffold"}
ScaffoldReturned == pc = "done" /\ fn = "scaffold"
FracInRange == 0 < frac_num /\ frac_num < FracDen

\* C1: both splitters return (train, test) that partition the input: every
\* identifier of the dataset is a key of exactly one of train and test, no
\* other key appears, and each key maps to the datapoint it maps to in the
\* input, whatever frac_train is.
C1_Partition ==
  SplitReturned =>
    /\ result.status = "returned"
    /\ DOMAIN result.train \cup DOMAIN result.test = DOMAIN dataset
    /\ DOMAIN result.train \cap DOMAIN result.test = {}
    /\ \A k \in DOMAIN result.train : result.train[k] = dataset[k]
    /\ \A k \in DOMAIN result.test : result.test[k] = dataset[k]

C1_Witness ==
  /\ pc = "done" /\ fn = "random"
  /\ Cardinality(DOMAIN dataset) >= 3
  /\ Cardinality(DOMAIN result.train) >= 2
  /\ DOMAIN result.test # {}

\* C2: after train_test_scaffold_split no two identifiers with the same
\* scaffold are placed one in train and the other in test.
C2_ScaffoldNotSplit ==
  ScaffoldReturned =>
    \A a \in DOMAIN dataset : \A b \in DOMAIN dataset :
       dataset[a].scaffold = dataset[b].scaffold =>
         (a \in DOMAIN result.train <=> b \in DOMAIN result.train)

C2_Witness ==
  /\ ScaffoldReturned
  /\ \E a \in DOMAIN result.train : \E b \in DOMAIN result.train :
        a # b /\ dataset[a].scaffold = dataset[b].scaffold
  /\ \E a \in DOMAIN result.test : \E b \in DOMAIN result.test :
        a # b /\ dataset[a].scaffold = dataset[b].scaffold

\* C3: train_test_scaffold_split takes the groups in decreasing-size order
\* and, once a group has been put into test, puts every later group into
\* test too: no group after the first rejected one is added to train.
C3_NoTrainAfterReject ==
  fn = "scaffold" =>
    \A j \in 1..(gi - 1) : \A l \in 1..(gi - 1) :
       (j < l /\ scaffolds[j].elements \subseteq DOMAIN test)
          => scaffolds[l].elements \subseteq DOMAIN test

\* C8: both splitters reject a frac_train outside the open interval (0, 1):
\* the call raises and returns no (train, test) pair.
C8_FracValidated ==
  (SplitReturned /\ ~FracInRange) => result.status = "raised"

LargestGroup(d) ==
  LET sizes == {Cardinality(g.elements) : g \in ScaffoldSets(d)}
  IN  CHOOSE m \in sizes : \A x \in sizes : x <= m

\* C9: for a non-empty dataset and frac_train in (0, 1), the train subset of
\* train_test_scaffold_split satisfies len(train) <= frac_train * len(dataset)
\* and frac_train * len(dataset) - len(train) is smaller than the size of
\* the largest scaffold group.
C9_TrainSizeWithinGroup ==
  (ScaffoldReturned /\ FracInRange /\ DOMAIN dataset # {}) =>
    LET n == Cardinality(DOMAIN dataset)
        t == Cardinality(DOMAIN result.train)
    IN  /\ t * FracDen <= frac_num * n
        /\ frac_num * n - t * FracDen < LargestGroup(dataset) * FracDen

C9_Witness ==
  /\ ScaffoldReturned /\ FracInRange
  /\ DOMAIN result.train # {} /\ DOMAIN result.test # {}
  /\ Cardinality(DOMAIN result.train) * FracDen
       < frac_num * Cardinality(DOMAIN dataset)
  /\ LargestGroup(dataset) >= 2

-----------------------------------------------------------------------------
(* Properties of dataset_to_numpy, checked under SpecNumpy *)

NumpyDone == pc = "done" /\ fn = "to_numpy"

SameTargets(d) ==
  \A a \in DOMAIN d : \A b \in DOMAIN d : DOMAIN d[a].labels = DOMAIN d[b].labels

SameLengths(d, add_desc) ==
  \A a \in DOMAIN d : \A b \in DOMAIN d :
     /\ Len(d[a].fingerprint) = Len(d[b].fingerprint)
     /\ add_desc => Len(d[a].descriptors) = Len(d[b].descriptors)

\* C4: for a non-empty dataset whose datapoints all have the same target
\* names (and vectors of one length), dataset_to_numpy returns y and W in
\* which row i belongs to the i-th identifier in ascending order and column
\* j to the j-th target name in ascending order, with y = 0 and W = 0 where
\* the label is the sentinel -1, and y = the raw label and W = 1 elsewhere.
C4_LabelCells ==
  (NumpyDone /\ DOMAIN dataset # {} /\ SameTargets(dataset)) =>
    /\ SameLengths(dataset, add_descriptors) => result.status = "returned"
    /\ result.status = "returned" =>
         LET sorted_smiles == SortedSeq(DOMAIN dataset)
         IN  /\ Len(result.y) = Len(sorted_smiles)
             /\ Len(result.W) = Len(sorted_smiles)
             /\ \A i \in 1..Len(sorted_smiles) :
                  LET labels == dataset[sorted_smiles[i]].labels
                      sorted_targets == SortedSeq(DOMAIN labels)
                  IN  \A j \in 1..Len(sorted_targets) :
                        IF labels[sorted_targets[j]] = Missing
                        THEN result.y[i][j] = Num(0) /\ result.W[i][j] = WZero
                        ELSE /\ result.y[i][j] = Num(labels[sorted_targets[j]])
                             /\ result.W[i][j] = WOne

C4_Witness ==
  /\ NumpyDone /\ result.status = "returned"
  /\ DOMAIN dataset = {1, 2} /\ SameTargets(dataset)
  /\ DOMAIN dataset[1].labels = {1, 2}
  /\ dataset[1].labels[1] = Missing /\ dataset[1].labels[2] = 2
  /\ dataset[2].labels[1] = 0 /\ dataset[2].labels[2] = Missing
  /\ add_descriptors

\* The lengths the sample datapoint fixed differ from those of datapoint k.
LengthDiffers(d, sk, k, add_desc) ==
  \/ Len(d[k].fingerprint) # Len(d[sk].fingerprint)
  \/ Cardinality(DOMAIN d[k].labels) # Cardinality(DOMAIN d[sk].labels)
  \/ add_desc /\ Len(d[k].descriptors) # Len(d[sk].descriptors)

\* C7: dataset_to_numpy raises, returning no matrices, whenever a
\* datapoint's feature vector, label set or descriptor vector has a length
\* different from that of the datapoint which sized X, y and W, in both
\* directions (longer or shorter).
C7_LengthMismatchRaises ==
  (NumpyDone /\ DOMAIN dataset # {}
     /\ \E k \in DOMAIN dataset :
          LengthDiffers(dataset, sample_key, k, add_descriptors))
  => result.status = "raised"

-----------------------------------------------------------------------------
(* Properties of transform_outputs, checked under SpecTransform *)

TransformDone == pc = "done" /\ fn = "transform"

\* What dataset_to_numpy handed to the transform loop.
Built == dataset_to_numpy(dataset, add_descriptors, sample_key)

\* The target or descriptor whose values dataset_to_numpy stored in column c
\* (lines 138-149): the c-th target name in ascending order, then the
\* descriptor numbers 0, 1, ... in ascending order.
LayoutName(d, sk, c) ==
  LET sorted_targets == SortedSeq(DOMAIN d[sk].labels)
  IN  IF c <= Len(sorted_targets)
      THEN Endpoint("target", sorted_targets[c])
      ELSE Endpoint("descriptor", c - Len(sorted_targets) - 1)

\* The transform list configured for a target or descriptor (none: no
\* transform).
ConfiguredFor(tt, dt, ep) ==
  IF ep.kind = "target"
  THEN (IF ep.key \in DOMAIN tt THEN tt[ep.key] ELSE <<>>)
  ELSE (IF ep.key \in DOMAIN dt THEN dt[ep.key] ELSE <<>>)

\* C5: the column-to-transform mapping of transform_outputs matches the
\* column layout of dataset_to_numpy: every column of the returned y is the
\* column dataset_to_numpy built, transformed by the list configured for the
\* target or descriptor stored in that column, with masked statistics
\* exactly for the columns that hold target labels.
C5_MappingMatchesLayout ==
  (TransformDone /\ result.status = "returned") =>
    \A c \in 1..Len(Built.y[1]) :
      LET name == LayoutName(dataset, sample_key, c)
          e == ApplyList(ConfiguredFor(task_transforms, desc_transforms, name),
                         Col(Built.y, c), Col(Built.W, c), name.kind = "target")
      IN  e.status = "ok" /\ Col(result.y, c) = e.col

\* Endpoint number t is transformed by log first, and the column
\* dataset_to_numpy built for it holds a value <= 0.
LogOnNonPositive(built, endpoints, t) ==
  LET list == TransformsOf(task_transforms, desc_transforms, endpoints[t])
  IN  /\ t <= Len(built.y[1])
      /\ list # <<>> /\ Head(list) = "log"
      /\ \E i \in 1..Len(built.y) : built.y[i][t].a <= 0

LogCase ==
  /\ TransformDone
  /\ LET built == Built
         endpoints == Endpoints(task_transforms, desc_transforms,
                                add_descriptors)
     IN  /\ built.status = "returned"
         /\ \E t \in 1..Len(endpoints) : LogOnNonPositive(built, endpoints, t)

\* Nothing else raises: every transform name is known and every endpoint
\* indexes a column of y.
NoOtherFailure ==
  LET endpoints == Endpoints(task_transforms, desc_transforms, add_descriptors)
      built == Built
  IN  /\ Len(endpoints) <= Len(built.y[1])
      /\ \A t \in 1..Len(endpoints) :
           Range(TransformsOf(task_transforms, desc_transforms, endpoints[t]))
              \subseteq KnownTransforms

KeysCoincide ==
  /\ DOMAIN task_transforms = DOMAIN dataset[sample_key].labels
  /\ add_descriptors =>
       DOMAIN desc_transforms = 0..(Len(dataset[sample_key].descriptors) - 1)

MappingMatchesWhenKeysCoincide ==
  (TransformDone /\ result.status = "returned" /\ KeysCoincide) =>
    \A c \in 1..Len(Built.y[1]) :
      LET name == LayoutName(dataset, sample_key, c)
          e == ApplyList(ConfiguredFor(task_transforms, desc_transforms, name),
                         Col(Built.y, c), Col(Built.W, c), name.kind = "target")
      IN  e.status = "ok" /\ Col(result.y, c) = e.col

-----------------------------------------------------------------------------
(* Properties of labels_to_weights, checked under SpecWeights *)

WeightsDone == pc = "done" /\ fn = "weights"

CountOf(seq, v) == Cardinality({i \in 1..Len(seq) : seq[i] = v})

\* floor(n / p) for p > 0, by its definition
FloorOf(n, p) == CHOOSE q \in 0..n : q * p <= n /\ n < (q + 1) * p

\* C10: for ytrue of 0s and 1s with at least one 1, labels_to_weights
\* returns a vector of the same length with weight 1 at every 0 and weight
\* floor(n_negatives / n_positives) at every 1 (counting the 0 and the 1
\* entries); if an entry is neither 0 nor 1 the call raises instead.
C10_Weights ==
  WeightsDone =>
    /\ (Range(ytrue) \subseteq {0, 1} /\ 1 \in Range(ytrue)) =>
         /\ result.status = "returned"
         /\ Len(result.sample_weights) = Len(ytrue)
         /\ \A i \in 1..Len(ytrue) :
              result.sample_weights[i] =
                 IF ytrue[i] = 0 THEN Num(1)
                 ELSE Num(FloorOf(CountOf(ytrue, 0), CountOf(ytrue, 1)))
    /\ ~(Range(ytrue) \subseteq {0, 1}) =>
         result.status = "raised" /\ result.error = "ValueError"

C10_Witness ==
  /\ WeightsDone
  /\ ytrue = <<0, 0, 0, 1>>
  /\ result.status = "returned"
  /\ result.sample_weights = <<Num(1), Num(1), Num(1), Num(3)>>

====
